---- MODULE Spec2Model ----
(***************************************************************************)
(* Model of jules-scratch/verification/verify_theme_package.py: a script   *)
(* that launches a headless browser, opens a Storybook story, waits for a  *)
(* heading inside the preview iframe, takes a screenshot and closes the    *)
(* browser.  One invocation of the script is one "run"; the model lets the *)
(* script be invoked several times in succession on the same filesystem.   *)
(***************************************************************************)
EXTENDS Integers, Sequences, FiniteSets, TLC

VARIABLES
    run,        \* number of invocations of the script so far
    mode,       \* "idle" | "running" | "unwinding" | "exited"
    pc,         \* index into Program of the next statement
    stack,      \* Python call stack, innermost frame last
    env,        \* what this run's environment does (server, element, disk)
    elapsed,    \* ms spent so far inside to_be_visible
    playwright, \* "off" | "started" | "stopped"  (the with-block's resource)
    browser,    \* "none" | "open" | "closed"
    location,   \* URL the page shows
    frame,      \* selector the frame locator is scoped to
    fs,         \* filesystem: path -> file written there
    writes,     \* files written by this run
    error,      \* exception in flight, or the one that ended the run
    raised,     \* history: the statement that raised in this run, and what
    exit,       \* process exit status (-1 while the process runs)
    trace,      \* statements of the browser sequence executed by this run
    fsAtStart,  \* history: fs when this run was invoked
    prev        \* history: how the previous run ended

vars == <<run, mode, pc, stack, env, elapsed, playwright, browser, location,
          frame, fs, writes, error, raised, exit, trace, fsAtStart, prev>>

----------------------------------------------------------------------------
(* Bounds of the model *)

MaxRuns == 2

----------------------------------------------------------------------------
(* Constants of the script *)

Timeout == 30000

TargetURL ==
    "http://localhost:6006/?path=/story/industrymarkdown-slidepresentationwiththemeswitcher--theme-switcher-demo"

FrameSelector == "#storybook-preview-iframe"

ScreenshotPath == "jules-scratch/verification/theme-packaging-verification.png"

\* A file of the working tree the script never names.
OtherPath == "jules-scratch/verification/verify_theme_package.py"

\* Where a writer that refuses to clobber would put a second screenshot.
DuplicatePath == "jules-scratch/verification/theme-packaging-verification (1).png"

ScreenshotArgsFullPage == [path |-> ScreenshotPath, full_page |-> TRUE]

\* page.screenshot(path=...): the keyword arguments the script passes.
ScreenshotArgs == [path |-> ScreenshotPath]

\* Playwright's page.screenshot captures the viewport unless full_page=True.
FullPage(args) ==
    IF "full_page" \in DOMAIN args THEN args.full_page ELSE FALSE

\* expect(...).to_be_visible raises AssertionError when the wait runs out.
ExpectError == "AssertionError"

\* page.goto, chromium.launch and page.screenshot raise playwright's Error.
LibraryError == "Error"

----------------------------------------------------------------------------
(* The program text, in execution order *)

ProgramScreenshotBeforeExpect ==
    << "launch", "new_page", "call", "goto", "frame_locator", "screenshot",
       "expect", "return", "close", "exit_with" >>

ProgramCloseBeforeCall ==
    << "launch", "new_page", "close", "call", "goto", "frame_locator",
       "expect", "screenshot", "return", "exit_with" >>

ProgramScreenshotBeforeGoto ==
    << "launch", "new_page", "call", "screenshot", "goto", "frame_locator",
       "expect", "return", "close", "exit_with" >>

Program ==
    << "launch", "new_page", "call", "goto", "frame_locator", "expect",
       "screenshot", "return", "close", "exit_with" >>

Stmt == IF mode = "running" THEN Program[pc] ELSE "none"

IndexOf(s) == CHOOSE i \in DOMAIN Program : Program[i] = s

\* The statement at which a frame's body ends.
BodyEnd(f) == IF f = "test_theme_packaging" THEN IndexOf("return")
              ELSE IndexOf("exit_with")

CatchesInTest(f, e) == f = "test_theme_packaging"

CatchesInMain(f, e) == f = "main"

\* Whether frame f has an except clause that handles e: the script has no
\* try statement at all.
Catches(f, e) == FALSE

ExitStatusAlwaysZero(e) == 0

\* CPython's exit status: 0 when the module ends, 1 on an uncaught exception.
ExitStatus(e) == IF e = "none" THEN 0 ELSE 1

----------------------------------------------------------------------------
(* The environment of one run *)

VisibleTimes == {0, Timeout - 1, Timeout, Timeout + 1}

Envs ==
    { [launchOK |-> l, serverUp |-> s, appears |-> a, visibleAt |-> t, shotOK |-> w] :
        l \in BOOLEAN, s \in BOOLEAN, a \in {TRUE}, t \in VisibleTimes, w \in BOOLEAN }
    \cup
    { [launchOK |-> l, serverUp |-> s, appears |-> FALSE, visibleAt |-> 0, shotOK |-> w] :
        l \in BOOLEAN, s \in BOOLEAN, w \in BOOLEAN }

\* The heading is visible once e ms of the wait have passed.
Visible(e) == env.appears /\ env.visibleAt <= e

DeadlineNever(e) == FALSE

\* The wait's deadline: timeout=30000.
DeadlineReached(e) == e >= Timeout

\* The next instant at which the outcome of a poll can change.
NextInstant(e) ==
    IF env.appears /\ env.visibleAt > e /\ env.visibleAt < Timeout
    THEN env.visibleAt ELSE Timeout

----------------------------------------------------------------------------
(* The filesystem *)

File(r, full) == [by |-> r, full_page |-> full]

WriteFileNoop(f, path, content) == f

WriteFileNoClobber(f, path, content) ==
    IF path \in DOMAIN f
    THEN [p \in DOMAIN f \cup {DuplicatePath} |->
            IF p = DuplicatePath THEN content ELSE f[p]]
    ELSE [p \in DOMAIN f \cup {path} |-> IF p = path THEN content ELSE f[p]]

\* Writing a file creates it or replaces what was there.
WriteFile(f, path, content) ==
    [p \in DOMAIN f \cup {path} |-> IF p = path THEN content ELSE f[p]]

EmptyFS == [p \in {} |-> File(0, FALSE)]

InitialFS ==
    { EmptyFS,
      [p \in {OtherPath} |-> File(0, FALSE)],
      [p \in {OtherPath, ScreenshotPath} |-> File(0, FALSE)] }

----------------------------------------------------------------------------
(* Initial state: the script has not been invoked *)

NothingRaised == [at |-> "none", class |-> "none"]

NoRun == [ran |-> FALSE, exit |-> 0, fs |-> EmptyFS]

Init ==
    /\ run = 0
    /\ mode = "idle"
    /\ pc = 1
    /\ stack = <<>>
    /\ env \in {[launchOK |-> TRUE, serverUp |-> TRUE, appears |-> FALSE,
                 visibleAt |-> 0, shotOK |-> TRUE]}
    /\ elapsed = 0
    /\ playwright = "off"
    /\ browser = "none"
    /\ location = "none"
    /\ frame = "none"
    /\ fs \in InitialFS
    /\ writes = 0
    /\ error = "none"
    /\ raised = NothingRaised
    /\ exit = -1
    /\ trace = <<>>
    /\ fsAtStart = fs
    /\ prev = NoRun

----------------------------------------------------------------------------
(* Steps *)

\* The trace once statement s has been entered; a call that is already being
\* executed is not entered again.
Entered(t, s) ==
    IF t # <<>> /\ t[Len(t)] = s THEN t ELSE Append(t, s)

\* raise e at the current statement
Raise(e) ==
    /\ mode' = "unwinding"
    /\ error' = e
    /\ raised' = [at |-> Program[pc], class |-> e]
    /\ UNCHANGED pc

Advance ==
    /\ pc' = pc + 1
    /\ UNCHANGED <<mode, error, raised>>

\* python verify_theme_package.py: __main__ calls main(), which enters the
\* with-block.
Invoke ==
    /\ mode \in {"idle", "exited"}
    /\ run < MaxRuns
    /\ run' = run + 1
    /\ env' \in Envs
    /\ mode' = "running"
    /\ pc' = 1
    /\ stack' = <<"module", "main">>
    /\ elapsed' = 0
    /\ playwright' = "started"
    /\ browser' = "none"
    /\ location' = "none"
    /\ frame' = "none"
    /\ writes' = 0
    /\ error' = "none"
    /\ raised' = NothingRaised
    /\ exit' = -1
    /\ trace' = <<>>
    /\ fsAtStart' = fs
    /\ prev' = IF mode = "exited"
               THEN [ran |-> TRUE, exit |-> exit, fs |-> fs]
               ELSE NoRun
    /\ UNCHANGED fs

\* browser = p.chromium.launch(headless=True)
Launch ==
    /\ Stmt = "launch"
    /\ trace' = Append(trace, "launch")
    /\ IF env.launchOK
       THEN browser' = "open" /\ Advance
       ELSE UNCHANGED browser /\ Raise(LibraryError)
    /\ UNCHANGED <<run, stack, env, elapsed, playwright, location, frame, fs,
                   writes, exit, fsAtStart, prev>>

\* page = browser.new_page()
NewPage ==
    /\ Stmt = "new_page"
    /\ trace' = Append(trace, "new_page")
    /\ location' = "about:blank"
    /\ Advance
    /\ UNCHANGED <<run, stack, env, elapsed, playwright, browser, frame, fs,
                   writes, exit, fsAtStart, prev>>

\* test_theme_packaging(page)
Call ==
    /\ Stmt = "call"
    /\ stack' = Append(stack, "test_theme_packaging")
    /\ Advance
    /\ UNCHANGED <<run, env, elapsed, playwright, browser, location, frame, fs,
                   writes, exit, trace, fsAtStart, prev>>

\* page.goto(url)
Goto ==
    /\ Stmt = "goto"
    /\ trace' = Append(trace, "goto")
    /\ IF env.serverUp
       THEN location' = TargetURL /\ Advance
       ELSE UNCHANGED location /\ Raise(LibraryError)
    /\ UNCHANGED <<run, stack, env, elapsed, playwright, browser, frame, fs,
                   writes, exit, fsAtStart, prev>>

\* iframe_locator = page.frame_locator("#storybook-preview-iframe")
FrameLocator ==
    /\ Stmt = "frame_locator"
    /\ trace' = Append(trace, "frame_locator")
    /\ frame' = FrameSelector
    /\ Advance
    /\ UNCHANGED <<run, stack, env, elapsed, playwright, browser, location, fs,
                   writes, exit, fsAtStart, prev>>

\* expect(...).to_be_visible(timeout=30000): the wait goes on
ExpectPoll ==
    /\ Stmt = "expect"
    /\ ~Visible(elapsed)
    /\ elapsed < Timeout
    /\ elapsed' = NextInstant(elapsed)
    /\ trace' = Entered(trace, "expect")
    /\ UNCHANGED <<run, mode, pc, stack, env, playwright, browser, location,
                   frame, fs, writes, error, raised, exit, fsAtStart, prev>>

\* expect(...).to_be_visible(timeout=30000): the heading is seen
ExpectPass ==
    /\ Stmt = "expect"
    /\ Visible(elapsed)
    /\ elapsed <= Timeout
    /\ trace' = Entered(trace, "expect")
    /\ Advance
    /\ UNCHANGED <<run, stack, env, elapsed, playwright, browser, location,
                   frame, fs, writes, exit, fsAtStart, prev>>

\* expect(...).to_be_visible(timeout=30000): the wait runs out
ExpectTimeout ==
    /\ Stmt = "expect"
    /\ DeadlineReached(elapsed)
    /\ trace' = Entered(trace, "expect")
    /\ Raise(ExpectError)
    /\ UNCHANGED <<run, stack, env, elapsed, playwright, browser, location,
                   frame, fs, writes, exit, fsAtStart, prev>>

\* page.screenshot(path=...)
Screenshot ==
    /\ Stmt = "screenshot"
    /\ trace' = Append(trace, "screenshot")
    /\ IF env.shotOK
       THEN /\ fs' = WriteFile(fs, ScreenshotArgs.path,
                               File(run, FullPage(ScreenshotArgs)))
            /\ writes' = writes + 1
            /\ Advance
       ELSE /\ UNCHANGED <<fs, writes>>
            /\ Raise(LibraryError)
    /\ UNCHANGED <<run, stack, env, elapsed, playwright, browser, location,
                   frame, exit, fsAtStart, prev>>

\* test_theme_packaging's body ends
Return ==
    /\ Stmt = "return"
    /\ stack' = SubSeq(stack, 1, Len(stack) - 1)
    /\ Advance
    /\ UNCHANGED <<run, env, elapsed, playwright, browser, location, frame, fs,
                   writes, exit, trace, fsAtStart, prev>>

\* browser.close()
Close ==
    /\ Stmt = "close"
    /\ trace' = Append(trace, "close")
    /\ browser' = "closed"
    /\ Advance
    /\ UNCHANGED <<run, stack, env, elapsed, playwright, location, frame, fs,
                   writes, exit, fsAtStart, prev>>

\* the with-block ends, main() returns and the module ends
ExitWith ==
    /\ Stmt = "exit_with"
    /\ playwright' = "stopped"
    /\ stack' = <<>>
    /\ mode' = "exited"
    /\ exit' = ExitStatus(error)
    /\ UNCHANGED <<run, pc, env, elapsed, browser, location, frame, fs, writes,
                   error, raised, trace, fsAtStart, prev>>

\* the exception in flight leaves the innermost frame
Unwind ==
    /\ mode = "unwinding"
    /\ LET f    == stack[Len(stack)]
           rest == SubSeq(stack, 1, Len(stack) - 1)
       IN IF Catches(f, error)
          THEN /\ error' = "none"
               /\ mode' = "running"
               /\ pc' = BodyEnd(f)
               /\ UNCHANGED <<stack, playwright, exit>>
          ELSE /\ stack' = rest
               /\ playwright' = IF f = "main" THEN "stopped" ELSE playwright
               /\ IF rest = <<>>
                  THEN mode' = "exited" /\ exit' = ExitStatus(error)
                  ELSE mode' = "unwinding" /\ UNCHANGED exit
               /\ UNCHANGED <<pc, error>>
    /\ UNCHANGED <<run, env, elapsed, browser, location, frame, fs, writes,
                   raised, trace, fsAtStart, prev>>

Step ==
    \/ Launch
    \/ NewPage
    \/ Call
    \/ Goto
    \/ FrameLocator
    \/ ExpectPoll
    \/ ExpectPass
    \/ ExpectTimeout
    \/ Screenshot
    \/ Return
    \/ Close
    \/ ExitWith
    \/ Unwind

Next == Invoke \/ Step

Spec == Init /\ [][Next]_vars

\* The interpreter keeps executing a started process; nothing obliges anyone
\* to invoke the script again.
FairSpec == Spec /\ WF_vars(Step)

----------------------------------------------------------------------------
(* Vocabulary of the properties *)

Exited == mode = "exited"

Has(s) == \E i \in DOMAIN trace : trace[i] = s

IsPrefix(a, b) == Len(a) <= Len(b) /\ \A i \in DOMAIN a : a[i] = b[i]

\* The browser sequence as the script's text orders it.
LinearOrder ==
    << "launch", "new_page", "goto", "frame_locator", "expect", "screenshot",
       "close" >>

\* The heading shows strictly before the wait's 30000 ms are over.
VisibleBeforeTimeout == env.appears /\ env.visibleAt < 30000

\* The heading does not show while the script waits for it.
NotVisibleInWait == ~env.appears \/ env.visibleAt > 30000

\* No library call of the run raises.
NothingFails ==
    env.launchOK /\ env.serverUp /\ VisibleBeforeTimeout /\ env.shotOK

----------------------------------------------------------------------------
(* C1: in a run whose navigation fails or whose heading does not become     *)
(* visible while the script waits, the screenshot step is never executed,   *)
(* nothing is written, and the run ends with a non-zero exit status.        *)
C1_FailureNoScreenshot ==
    (run >= 1 /\ (~env.serverUp \/ NotVisibleInWait)) =>
        /\ ~Has("screenshot")
        /\ writes = 0
        /\ Exited => exit # 0

C1_Witness ==
    /\ Exited
    /\ env.launchOK /\ env.serverUp /\ ~env.appears
    /\ Has("expect")
    /\ exit = 1

\* Navigation reached the story and the wait saw the heading in time.
ReachedAndSeen ==
    /\ env.serverUp /\ location = TargetURL
    /\ VisibleBeforeTimeout /\ Has("expect") /\ raised.at # "expect"

C3_StepsInOrder ==
    /\ IsPrefix(trace, LinearOrder)
    /\ Has("screenshot") =>
          /\ Visible(elapsed) /\ elapsed <= 30000
          /\ raised.at # "expect"

C3_LinearOrder ==
    /\ []C3_StepsInOrder
    /\ [][ (mode = "running" /\ mode' = "running" /\ run' = run /\ pc' = pc)
             => Program[pc] = "expect" ]_vars

C3_Witness ==
    /\ Exited
    /\ trace = LinearOrder
    /\ elapsed > 0

(* C4 as stated: the failure the visibility wait raises when its timeout    *)
(* runs out is a TimeoutError, and it ends the process with a non-zero      *)
(* status.                                                                  *)
C4_Original ==
    (Exited /\ raised.at = "expect") =>
        /\ raised.class = "TimeoutError"
        /\ exit # 0

(* C4 amended: the failure the visibility wait raises when its timeout runs *)
(* out is an AssertionError, the only error the wait raises; no frame       *)
(* catches it, so it leaves test_theme_packaging and main and the process   *)
(* ends with a non-zero status.                                             *)
C4_AssertionErrorPropagates ==
    (raised.at = "expect") =>
        /\ raised.class = "AssertionError"
        /\ error = raised.class
        /\ mode \in {"unwinding", "exited"}
        /\ Exited => (exit # 0 /\ stack = <<>>)

C4_Witness ==
    /\ Exited
    /\ raised = [at |-> "expect", class |-> "AssertionError"]
    /\ env.appears /\ env.visibleAt = 30000 + 1
    /\ stack = <<>>
    /\ exit = 1

(* C5 as stated: the screenshot a successful run leaves at the fixed path   *)
(* is a full-page screenshot.                                               *)
C5_Original ==
    (Exited /\ exit = 0) =>
        /\ ScreenshotPath \in DOMAIN fs
        /\ fs[ScreenshotPath].full_page

(* C5 amended: the screenshot a run writes is a viewport screenshot (the    *)
(* call passes no full_page argument), and it is written to the fixed path. *)
C5_ViewportScreenshot ==
    (writes >= 1) =>
        /\ ScreenshotPath \in DOMAIN fs
        /\ fs[ScreenshotPath] = [by |-> run, full_page |-> FALSE]
        /\ \A p \in DOMAIN fs : p # ScreenshotPath => fs[p] = fsAtStart[p]

C5_Witness ==
    /\ Exited /\ exit = 0
    /\ fs[ScreenshotPath] = [by |-> run, full_page |-> FALSE]
    /\ ScreenshotPath \notin DOMAIN fsAtStart

(* C6: when a successful run follows a successful run, the second one is    *)
(* not stopped by the file the first one left: it leaves the same set of    *)
(* files as the first did, one file at the fixed path, now its own, and     *)
(* every other file as it was.                                              *)
C6_Idempotent ==
    /\ (Exited /\ prev.ran /\ prev.exit = 0 /\ NothingFails) => exit = 0
    /\ (Exited /\ exit = 0 /\ prev.ran /\ prev.exit = 0) =>
          /\ DOMAIN fs = DOMAIN prev.fs
          /\ prev.fs[ScreenshotPath].by = run - 1
          /\ fs[ScreenshotPath].by = run
          /\ \A p \in DOMAIN fs : p # ScreenshotPath => fs[p] = prev.fs[p]

C6_Witness ==
    /\ Exited /\ exit = 0
    /\ prev.ran /\ prev.exit = 0
    /\ run = 2
    /\ fs[ScreenshotPath].by = 2
    /\ prev.fs[ScreenshotPath].by = 1

(* C7: the script's browser.close() is executed exactly in the runs that    *)
(* succeed: there it comes after the screenshot and leaves the browser      *)
(* closed at exit; in a run where navigation, the visibility wait or the    *)
(* screenshot raises it is never executed and the browser is left open.     *)
C7_CloseOnlyOnSuccess ==
    /\ Exited => (exit = 0 <=> Has("close"))
    /\ (Exited /\ exit = 0) => (browser = "closed" /\ trace = LinearOrder)
    /\ raised.at \in {"goto", "expect", "screenshot"} =>
          (~Has("close") /\ browser = "open")

C7_Witness ==
    /\ Exited
    /\ raised.at = "screenshot"
    /\ browser = "open"
    /\ exit = 1

(* C8: every run terminates: the wait never lasts beyond 30000 ms, a        *)
(* running script always reaches its exit, and an exited process takes no   *)
(* further step (the only thing that can follow is a new invocation).       *)
C8_Terminates ==
    /\ [](elapsed <= 30000)
    /\ [](mode \in {"running", "unwinding"} => <>(mode = "exited" /\ exit \in {0, 1}))
    /\ [][ mode = "exited" => run' = run + 1 ]_vars

C8_Witness ==
    /\ Exited
    /\ raised.at = "expect"
    /\ ~env.appears
    /\ elapsed = 30000

(* C10: a run that fails before the screenshot step (launch, navigation or  *)
(* visibility timeout) leaves the filesystem as it found it, so a           *)
(* screenshot file of an earlier run is still there after it.               *)
C10_FailureLeavesFiles ==
    (raised.at \in {"launch", "goto", "expect"}) => fs = fsAtStart

C10_Witness ==
    /\ Exited /\ exit # 0
    /\ raised.at = "goto"
    /\ ScreenshotPath \in DOMAIN fs
    /\ prev.ran /\ prev.exit = 0
    /\ fs[ScreenshotPath].by = run - 1

====
